---- MODULE Spec2Model ----
(***************************************************************************)
(* A model of the mining-and-submission loop of ore-cli:                   *)
(*   - Miner::find_hash_par (src/src/mine.rs): the worker threads that     *)
(*     hash nonces, publish their best difficulty to a shared RwLock<u32>  *)
(*     and stop at the cutoff, and the join loop that selects the winner;  *)
(*   - Miner::send_and_confirm (src/src/send_and_confirm.rs): the sign /   *)
(*     broadcast / poll / retry loop;                                      *)
(*   - Miner::mine (src/src/mine.rs): the outer loop that strings them     *)
(*     together;                                                           *)
(*   - the tip stream task of main (src/src/main.rs), which writes the     *)
(*     shared tip while the rest runs;                                     *)
(*   - five computations that are also run on their own, over all their    *)
(*     inputs: the nonce offsets (PartitionSpec), find_bus (BusSpec), the  *)
(*     join loop (JoinSpec), the data of the mine instruction (CodecSpec)  *)
(*     and get_cutoff (CutoffSpec).                                        *)
(*                                                                         *)
(* Scaling.  The 64-bit nonce is modelled with NonceMax in the place of    *)
(* u64::MAX and wrapping increment (the release profile's arithmetic), and *)
(* the stop check "nonce % 100 == 0" with CheckEvery in the place of 100,  *)
(* so that a worker reaches its next stop check within the explored nonce  *)
(* space.  Hash difficulties range over 0..MaxDifficulty; the hash         *)
(* primitive is a black box whose batch is chosen nondeterministically.    *)
(***************************************************************************)
EXTENDS Integers, Sequences, FiniteSets, TLC

\* ----------------------------------------------------------------- bounds
NonceMax == 3          \* stands for u64::MAX (mine.rs:68)
CheckEvery == 2        \* stands for the 100 of "nonce % 100 == 0" (mine.rs:153)
MaxCores == 2          \* largest args.cores and largest number of core ids
MaxDifficulty == 2     \* largest difficulty a hash can have
MaxBatch == 1          \* largest number of hashes of one hashes_with_memory call
MaxCutoff == 1         \* largest cutoff_time, in seconds
MaxClock == 1          \* seconds of wall-clock time that are told apart
BatchCap == 3          \* the count of hashed batches saturates here
MaxSends == 3          \* broadcasts of one send_and_confirm call that are explored
MineCores == 1         \* largest args.cores of the runs of the whole mine loop
MaxHashAt == 1         \* largest proof.last_hash_at
MaxBuffer == 0         \* largest args.buffer_time
MaxRewards == 1        \* largest bus.rewards
MaxTip == 1            \* largest value of the tip, in lamports
MaxWidth == 8          \* largest u64::MAX of the nonce offsets checked on their own
MaxHandles == 3        \* most handles of the join loop checked on its own
I64Max == 127          \* stands for i64::MAX (mine.rs:232-236)

\* -------------------------------------------------------- program constants
GATEWAY_RETRIES == 1
CONFIRM_RETRIES == 8
RESIGN_EVERY == 10
EPOCH_SECS == 60
BUS_COUNT == 8
TIP_ACCOUNTS == 8
COMPUTE_BUDGET == 500000
DIGEST_LEN == 16
NONCE_LEN == 8

\* -------------------------------------------------------------- variables
VARIABLES
    pc,                      \* position of the main task
    \* find_hash_par: arguments
    cores,                   \* args.cores
    core_ids,                \* the ids core_affinity::get_core_ids() returns
    cutoff_time,
    min_difficulty,
    nonce_indices,
    \* find_hash_par: shared between the workers
    global_best_difficulty,  \* Arc<RwLock<u32>>
    clock,                   \* wall-clock seconds since the round was started
    \* find_hash_par: per worker
    wpc,                     \* position of the worker thread
    timer,                   \* the clock value at the worker's Instant::now()
    nonce,
    best_nonce,
    best_difficulty,
    hxs,                     \* the hashes of the current batch still to be scanned
    gbd_read,                \* the local copy read at mine.rs:154
    \* find_hash_par: result of the join loop
    solution,
    \* history variables
    batches,                 \* batches hashed by each worker, saturating at BatchCap
    max_published,           \* largest value ever written to the tracker
    \* send_and_confirm
    skip_confirm,
    attempts,
    tx_hash,                 \* the blockhash the transaction is signed with, 0 = unsigned
    confirm_i,               \* iterations of the 'confirm loop done for this broadcast
    outcome,                 \* what the call returned, "none" while it runs
    \* history variables
    sends,                   \* broadcasts of this call
    last_poll,               \* the response of the latest poll of this call
    any_send_ok,             \* some broadcast of this call was accepted
    reset_seen,              \* some poll of this call reported NeedsReset
    resent,                  \* a broadcast followed a NeedsReset poll in this call
    sent_via,                \* the clients the broadcasts of this call went to
    \* send_and_confirm: the transaction
    jito_tip,                \* the local copy of the tip read at send_and_confirm.rs:71
    send_client,             \* the client the broadcasts go to
    final_ixs,               \* the instruction list the transaction is built from
    \* mine
    buffer_time,             \* args.buffer_time
    last_hash_at,
    bus,                     \* index in BUS_ADDRESSES of the bus find_bus chose
    ixs,                     \* the instruction list mine hands to send_and_confirm
    \* main
    tip,                     \* Arc<RwLock<u64>>, written by the tip stream task
    \* one call of a function that is checked on its own
    call,                    \* the function and its arguments
    ret                      \* what it has computed so far

searchVars == << cores, core_ids, cutoff_time, min_difficulty, nonce_indices,
                 global_best_difficulty, clock, wpc, timer, nonce, best_nonce,
                 best_difficulty, hxs, gbd_read, solution, batches,
                 max_published >>

txVars == << jito_tip, send_client, final_ixs >>

submitVars == << skip_confirm, attempts, tx_hash, confirm_i, outcome, sends,
                 last_poll, any_send_ok, reset_seen, resent, sent_via,
                 txVars >>

mineVars == << buffer_time, last_hash_at, bus, ixs >>

pureVars == << call, ret >>

vars == << pc, searchVars, submitVars, mineVars, tip, pureVars >>

\* ------------------------------------------------------------------ helpers
Max(a, b) == IF a >= b THEN a ELSE b
Min(a, b) == IF a <= b THEN a ELSE b

Ids == 0 .. (MaxCores - 1)
NonceSpace == NonceMax + 1

\* u64::saturating_div and u64::saturating_mul at the model's width
saturating_div(a, b) == a \div b
saturating_mul_to(max, a, b) == Min(a * b, max)
saturating_mul(a, b) == saturating_mul_to(NonceMax, a, b)

\* a variant of nonce_index_at: the product is taken before the quotient
nonce_index_at_MulFirst(max, c, n) ==
    saturating_div(saturating_mul_to(max, max, n), c)

\* mine.rs:68, the start offset of worker n of c where u64::MAX is max
nonce_index_at(max, c, n) ==
    saturating_mul_to(max, saturating_div(max, c), n)

\* mine.rs:66-70, the start offset of worker n
nonce_index(c, n) == nonce_index_at(NonceMax, c, n)

NonceIndices(c) == [n \in 0 .. (c - 1) |-> nonce_index(c, n)]

\* mine.rs:112-113, the ids of the spawned workers
Workers == {i \in core_ids : i < cores}

\* every Vec<Hash> hashes_with_memory may return: difficulties of its hashes
Batches == UNION {[1 .. n -> 0 .. MaxDifficulty] : n \in 0 .. MaxBatch}

\* mine.rs:142, the hashes of a batch that beat the worker's best so far, in
\* order: the others are skipped by the scan without any effect
RECURSIVE Records(_, _)
Records(hs, best) ==
    IF hs = << >> THEN << >>
    ELSE IF Head(hs) > best
         THEN << Head(hs) >> \o Records(Tail(hs), Head(hs))
         ELSE Records(Tail(hs), best)

\* mine.rs:146, the guard of the tracker write
ShouldPublish(d, g) == d > g

\* a variant of IsCheckNonce: the stop condition is looked at after every batch
IsCheckNonce_EveryBatch(n) == n >= 0

\* mine.rs:153, the nonces at which the stop condition is looked at
IsCheckNonce(n) == n % CheckEvery = 0

\* a variant of ShouldBreak: the loop is left at the cutoff whatever was found
ShouldBreak_NoFloor(elapsed, gbd) == elapsed >= cutoff_time /\ gbd >= 0

\* a variant of ShouldBreak: the loop is left once the floor is met, whatever
\* the time is
ShouldBreak_FloorOnly(elapsed, gbd) == elapsed >= 0 /\ gbd >= min_difficulty

\* mine.rs:157-166, the stop condition
ShouldBreak(elapsed, gbd) == elapsed >= cutoff_time /\ gbd >= min_difficulty

\* mine.rs:183, nonce += 1
NextNonce(n) == (n + 1) % NonceSpace

\* what h.join() gives for the handle of worker w: Err for a thread that
\* panicked, or Ok with the thread's best nonce and difficulty
JoinErr(w) == [ok |-> FALSE, nonce |-> 0, difficulty |-> 0, worker |-> w]
JoinOk(w, n, d) == [ok |-> TRUE, nonce |-> n, difficulty |-> d, worker |-> w]

\* a variant of JoinLoop: a result as good as the best so far replaces it
RECURSIVE JoinLoop_LastWins(_, _)
JoinLoop_LastWins(hs, best) ==
    IF hs = << >> THEN best
    ELSE IF Head(hs).ok /\ Head(hs).difficulty >= best.difficulty
         THEN JoinLoop_LastWins(Tail(hs), [nonce |-> Head(hs).nonce,
                                           difficulty |-> Head(hs).difficulty,
                                           worker |-> Head(hs).worker])
         ELSE JoinLoop_LastWins(Tail(hs), best)

\* mine.rs:197-205, the join loop over the results of the handles in spawn
\* order, from the best so far
RECURSIVE JoinLoop(_, _)
JoinLoop(hs, best) ==
    IF hs = << >> THEN best
    ELSE IF Head(hs).ok /\ Head(hs).difficulty > best.difficulty
         THEN JoinLoop(Tail(hs), [nonce |-> Head(hs).nonce,
                                  difficulty |-> Head(hs).difficulty,
                                  worker |-> Head(hs).worker])
         ELSE JoinLoop(Tail(hs), best)

\* mine.rs:114-191 and 198, the results of the handles of the round: the
\* threads run until they leave their loop and return their best
Handles ==
    [k \in 1 .. Cardinality(Workers) |->
        LET w == CHOOSE i \in Workers :
                     Cardinality({j \in Workers : j < i}) = k - 1
        IN  JoinOk(w, best_nonce[w], best_difficulty[w])]

\* mine.rs:194-196
DefaultSolution == [nonce |-> 0, difficulty |-> 0, worker |-> -1]

AllDone == \A w \in Workers : wpc[w] = "done"

\* send_and_confirm is not running
NoPoll == [kind |-> "none", err |-> "none", conf |-> "none"]

SubmitIdle ==
    /\ skip_confirm = FALSE
    /\ attempts = 0
    /\ tx_hash = 0
    /\ confirm_i = 0
    /\ outcome = "none"
    /\ sends = 0
    /\ last_poll = NoPoll
    /\ any_send_ok = FALSE
    /\ reset_seen = FALSE
    /\ resent = FALSE
    /\ sent_via = {}
    /\ jito_tip = 0
    /\ send_client = "rpc"
    /\ final_ixs = << >>

\* mine is not running
MineIdle ==
    /\ buffer_time = 0
    /\ last_hash_at = 0
    /\ bus = 0
    /\ ixs = << >>

\* no function is checked on its own
NoCall == [fn |-> "none"]

PureIdle ==
    /\ call = NoCall
    /\ ret = << >>

\* find_hash_par is not running
SearchOff ==
    /\ cores = 0
    /\ core_ids = {0}
    /\ cutoff_time = 0
    /\ min_difficulty = 0
    /\ nonce_indices = << >>
    /\ global_best_difficulty = 0
    /\ clock = 0
    /\ wpc = [i \in Ids |-> "off"]
    /\ timer = [i \in Ids |-> 0]
    /\ nonce = [i \in Ids |-> 0]
    /\ best_nonce = [i \in Ids |-> 0]
    /\ best_difficulty = [i \in Ids |-> 0]
    /\ hxs = [i \in Ids |-> << >>]
    /\ gbd_read = [i \in Ids |-> 0]
    /\ solution = [nonce |-> 0, difficulty |-> 0, worker |-> -1]
    /\ batches = [i \in Ids |-> 0]
    /\ max_published = 0

\* ------------------------------------------------------------ find_hash_par
\* mine.rs:109-120: the tracker is created and one thread is spawned per core id
Spawn ==
    /\ pc = "spawn"
    /\ pc' = "running"
    /\ global_best_difficulty' = 0
    /\ clock' = 0
    /\ wpc' = [i \in Ids |-> IF i \in Workers THEN "start" ELSE "off"]
    /\ nonce' = [i \in Ids |-> IF i \in Workers THEN nonce_indices[i] ELSE 0]
    /\ timer' = [i \in Ids |-> 0]
    /\ best_nonce' = [i \in Ids |-> 0]
    /\ best_difficulty' = [i \in Ids |-> 0]
    /\ hxs' = [i \in Ids |-> << >>]
    /\ gbd_read' = [i \in Ids |-> 0]
    /\ batches' = [i \in Ids |-> 0]
    /\ max_published' = 0
    /\ UNCHANGED << cores, core_ids, cutoff_time, min_difficulty, nonce_indices,
                    solution >>
    /\ UNCHANGED << submitVars, mineVars, tip, pureVars >>

\* wall-clock time passes while the round runs
Tick ==
    /\ pc = "running"
    /\ clock < MaxClock
    /\ clock' = clock + 1
    /\ UNCHANGED << pc, cores, core_ids, cutoff_time, min_difficulty,
                    nonce_indices, global_best_difficulty, wpc, timer, nonce,
                    best_nonce, best_difficulty, hxs, gbd_read, solution,
                    batches, max_published >>
    /\ UNCHANGED << submitVars, mineVars, tip, pureVars >>

\* mine.rs:126-130: the thread starts its timer and its local best
WorkerStart(w) ==
    /\ wpc[w] = "start"
    /\ timer' = [timer EXCEPT ![w] = clock]
    /\ best_nonce' = [best_nonce EXCEPT ![w] = nonce[w]]
    /\ best_difficulty' = [best_difficulty EXCEPT ![w] = 0]
    /\ wpc' = [wpc EXCEPT ![w] = "hash"]
    /\ UNCHANGED << pc, cores, core_ids, cutoff_time, min_difficulty,
                    nonce_indices, global_best_difficulty, clock, nonce, hxs,
                    gbd_read, solution, batches, max_published >>
    /\ UNCHANGED << submitVars, mineVars, tip, pureVars >>

\* mine.rs:133-137: one batch of hashes for the current nonce
WorkerHash(w) ==
    /\ wpc[w] = "hash"
    /\ \E b \in Batches :
          LET r == Records(b, best_difficulty[w]) IN
          /\ hxs' = [hxs EXCEPT ![w] = r]
          /\ wpc' = [wpc EXCEPT ![w] = IF r = << >> THEN "check" ELSE "scan"]
    /\ batches' = [batches EXCEPT ![w] = Min(@ + 1, BatchCap)]
    /\ UNCHANGED << pc, cores, core_ids, cutoff_time, min_difficulty,
                    nonce_indices, global_best_difficulty, clock, timer, nonce,
                    best_nonce, best_difficulty, gbd_read, solution,
                    max_published >>
    /\ UNCHANGED << submitVars, mineVars, tip, pureVars >>

\* mine.rs:141-146: a hash beats the local best; the tracker is read under the
\* read lock, which is released at the end of the if condition
WorkerScan(w) ==
    /\ wpc[w] = "scan"
    /\ LET d == Head(hxs[w]) IN
       /\ best_nonce' = [best_nonce EXCEPT ![w] = nonce[w]]
       /\ best_difficulty' = [best_difficulty EXCEPT ![w] = d]
       /\ IF ShouldPublish(d, global_best_difficulty)
          THEN /\ wpc' = [wpc EXCEPT ![w] = "write"]
               /\ hxs' = hxs
          ELSE /\ hxs' = [hxs EXCEPT ![w] = Tail(@)]
               /\ wpc' = [wpc EXCEPT ![w] =
                            IF Tail(hxs[w]) = << >> THEN "check" ELSE "scan"]
    /\ UNCHANGED << pc, cores, core_ids, cutoff_time, min_difficulty,
                    nonce_indices, global_best_difficulty, clock, timer, nonce,
                    gbd_read, solution, batches, max_published >>
    /\ UNCHANGED << submitVars, mineVars, tip, pureVars >>

\* mine.rs:147: the write lock is taken and the local best is stored
WorkerWrite(w) ==
    /\ wpc[w] = "write"
    /\ global_best_difficulty' = best_difficulty[w]
    /\ max_published' = Max(max_published, best_difficulty[w])
    /\ hxs' = [hxs EXCEPT ![w] = Tail(@)]
    /\ wpc' = [wpc EXCEPT ![w] = IF Tail(hxs[w]) = << >> THEN "check" ELSE "scan"]
    /\ UNCHANGED << pc, cores, core_ids, cutoff_time, min_difficulty,
                    nonce_indices, clock, timer, nonce, best_nonce,
                    best_difficulty, gbd_read, solution, batches >>
    /\ UNCHANGED << submitVars, mineVars, tip, pureVars >>

\* mine.rs:153-156 and 183: off a check nonce the loop goes on; on one the
\* tracker is read into a local
WorkerCheck(w) ==
    /\ wpc[w] = "check"
    /\ IF IsCheckNonce(nonce[w])
       THEN /\ gbd_read' = [gbd_read EXCEPT ![w] = global_best_difficulty]
            /\ wpc' = [wpc EXCEPT ![w] = "time"]
            /\ nonce' = nonce
       ELSE /\ nonce' = [nonce EXCEPT ![w] = NextNonce(@)]
            /\ wpc' = [wpc EXCEPT ![w] = "hash"]
            /\ gbd_read' = gbd_read
    /\ UNCHANGED << pc, cores, core_ids, cutoff_time, min_difficulty,
                    nonce_indices, global_best_difficulty, clock, timer,
                    best_nonce, best_difficulty, hxs, solution, batches,
                    max_published >>
    /\ UNCHANGED << submitVars, mineVars, tip, pureVars >>

\* mine.rs:157-183: the timer is read; the loop is left or goes on
WorkerTime(w) ==
    /\ wpc[w] = "time"
    /\ IF ShouldBreak(clock - timer[w], gbd_read[w])
       THEN /\ wpc' = [wpc EXCEPT ![w] = "done"]
            /\ UNCHANGED << nonce, gbd_read >>
       ELSE /\ nonce' = [nonce EXCEPT ![w] = NextNonce(@)]
            /\ wpc' = [wpc EXCEPT ![w] = "hash"]
            /\ gbd_read' = [gbd_read EXCEPT ![w] = 0]
    /\ UNCHANGED << pc, cores, core_ids, cutoff_time, min_difficulty,
                    nonce_indices, global_best_difficulty, clock, timer,
                    best_nonce, best_difficulty, hxs, solution, batches,
                    max_published >>
    /\ UNCHANGED << submitVars, mineVars, tip, pureVars >>

Worker(w) ==
    \/ WorkerStart(w)
    \/ WorkerHash(w)
    \/ WorkerScan(w)
    \/ WorkerWrite(w)
    \/ WorkerCheck(w)
    \/ WorkerTime(w)

\* mine.rs:193-216: every handle is joined and the best result is kept
Join ==
    /\ pc = "running"
    /\ AllDone
    /\ solution' = JoinLoop(Handles, DefaultSolution)
    /\ pc' = "joined"
    /\ UNCHANGED << cores, core_ids, cutoff_time, min_difficulty, nonce_indices,
                    global_best_difficulty, clock, wpc, timer, nonce, best_nonce,
                    best_difficulty, hxs, gbd_read, batches, max_published >>
    /\ UNCHANGED << submitVars, mineVars, tip, pureVars >>

\* one call of find_hash_par, with the nonce offsets mine builds for it
InitSearch ==
    /\ pc = "spawn"
    /\ cores \in 0 .. MaxCores
    /\ core_ids \in (SUBSET Ids) \ {{}}
    /\ cutoff_time \in 0 .. MaxCutoff
    /\ min_difficulty \in 0 .. MaxDifficulty
    /\ nonce_indices = NonceIndices(cores)
    /\ global_best_difficulty = 0
    /\ clock = 0
    /\ wpc = [i \in Ids |-> "off"]
    /\ timer = [i \in Ids |-> 0]
    /\ nonce = [i \in Ids |-> 0]
    /\ best_nonce = [i \in Ids |-> 0]
    /\ best_difficulty = [i \in Ids |-> 0]
    /\ hxs = [i \in Ids |-> << >>]
    /\ gbd_read = [i \in Ids |-> 0]
    /\ solution = DefaultSolution
    /\ batches = [i \in Ids |-> 0]
    /\ max_published = 0
    /\ SubmitIdle
    /\ MineIdle
    /\ tip = 0
    /\ PureIdle

NextSearch ==
    \/ Spawn
    \/ Tick
    \/ \E w \in Ids : Worker(w)
    \/ Join

SearchSpec == InitSearch /\ [][NextSearch]_vars

\* the scheduler runs every thread, time passes, and the main task joins
FairSearchSpec ==
    /\ SearchSpec
    /\ \A w \in Ids : WF_vars(Worker(w))
    /\ WF_vars(Tick)
    /\ WF_vars(Spawn)
    /\ WF_vars(Join)

\* --------------------------------------------------------- send_and_confirm
searchIdle == << cores, core_ids, cutoff_time, min_difficulty, nonce_indices,
                 global_best_difficulty, clock, wpc, timer, nonce, best_nonce,
                 best_difficulty, hxs, gbd_read, batches, max_published >>

\* the on-chain errors a status can carry
OnChainErrors == {"NeedsReset", "Custom", "Instruction", "Transaction"}

\* the confirmation levels a status can carry
Confirmations == {"Processed", "Confirmed", "Finalized"}

\* everything get_signature_statuses can answer for the one signature asked:
\* an RPC error, no status, or a status with an optional error and an optional
\* confirmation level
PollResponses ==
    {[kind |-> "rpc_err", err |-> "none", conf |-> "none"],
     [kind |-> "missing", err |-> "none", conf |-> "none"]}
    \cup [kind : {"status"}, err : OnChainErrors \cup {"none"},
          conf : Confirmations \cup {"none"}]

\* a variant of Classify: NeedsReset is returned like every other custom error
Classify_ResetIsFatal(r) ==
    IF r.kind # "status" THEN "continue"
    ELSE IF r.err # "none" THEN "fatal"
         ELSE IF r.conf \in {"Confirmed", "Finalized"} THEN "ok" ELSE "continue"

\* a variant of Classify: a custom error other than NeedsReset is only logged
Classify_CustomIgnored(r) ==
    IF r.kind # "status" THEN "continue"
    ELSE IF r.err # "none"
         THEN IF r.err = "NeedsReset" THEN "reset"
              ELSE IF r.err = "Custom" THEN "continue" ELSE "fatal"
         ELSE IF r.conf \in {"Confirmed", "Finalized"} THEN "ok" ELSE "continue"

\* a variant of Classify: the confirmation level is looked at before the error
Classify_ConfirmationFirst(r) ==
    IF r.kind # "status" THEN "continue"
    ELSE IF r.conf \in {"Confirmed", "Finalized"} THEN "ok"
         ELSE IF r.err # "none"
              THEN IF r.err = "NeedsReset" THEN "reset" ELSE "fatal"
              ELSE "continue"

\* a variant of Classify: a status at Processed ends the call like Confirmed
Classify_ProcessedOk(r) ==
    IF r.kind # "status" THEN "continue"
    ELSE IF r.err # "none"
         THEN IF r.err = "NeedsReset" THEN "reset" ELSE "fatal"
         ELSE IF r.conf \in {"Processed", "Confirmed", "Finalized"}
              THEN "ok" ELSE "continue"

\* send_and_confirm.rs:137-243, what one poll response leads to:
\*   "reset"    Custom(NeedsReset): attempts = 0 and break 'confirm
\*   "fatal"    any other error: return Err
\*   "ok"       no error and Confirmed or Finalized: return Ok(sig)
\*   "continue" anything else: the next iteration of the 'confirm loop
Classify(r) ==
    IF r.kind # "status" THEN "continue"
    ELSE IF r.err # "none"
         THEN IF r.err = "NeedsReset" THEN "reset" ELSE "fatal"
         ELSE IF r.conf \in {"Confirmed", "Finalized"} THEN "ok" ELSE "continue"

\* a variant of NeedsSigning: the counter is looked at after its increment
NeedsSigning_AfterIncrement(a) == (a + 1) % RESIGN_EVERY = 0

\* send_and_confirm.rs:114, the attempts at which the transaction is signed
NeedsSigning(a) == a % RESIGN_EVERY = 0

\* a variant of RetriesExhausted: the bound is reached one attempt early
RetriesExhausted_OneEarly(a) == a >= GATEWAY_RETRIES

\* send_and_confirm.rs:255, the bound on the broadcast attempts
RetriesExhausted(a) == a > GATEWAY_RETRIES

FatalOutcomes == {"Err:Blockhash", "Err:OnChain", "Err:MaxRetries"}

\* An instruction is modelled by its kind, the account that tells it from the
\* others of its kind (the bus of mine, the tip account of transfer; -1 if
\* there is none) and the value it carries (the unit limit, the nonce of the
\* solution, the lamports).
\* send_and_confirm.rs:63
set_compute_unit_limit(cus) ==
    [kind |-> "set_compute_unit_limit", acct |-> -1, val |-> cus]

\* mine.rs:82
auth == [kind |-> "auth", acct |-> -1, val |-> 0]

\* mine.rs:86-94, the mine instruction as the loop builds it, for a bus and the
\* solution of the search
MineIx(b, sol) == [kind |-> "mine", acct |-> b, val |-> sol.nonce]

\* send_and_confirm.rs:86-94, the transfer to the a-th tip account
transfer(a, lamports) == [kind |-> "transfer", acct |-> a, val |-> lamports]

\* a variant of CallerIxs: the mine instruction is built before the auth
CallerIxs_MineFirst(b, sol) == << MineIx(b, sol), auth >>

\* mine.rs:82-94, the instruction list mine hands to send_and_confirm
CallerIxs(b, sol) == << auth, MineIx(b, sol) >>

\* a variant of FinalIxs: the transfer is pushed whatever the tip is
FinalIxs_AlwaysTip(cus, user_ixs, t, a) ==
    << set_compute_unit_limit(cus) >> \o user_ixs \o << transfer(a, t) >>

\* send_and_confirm.rs:57-96, the list the transaction is built from: the
\* unit limit, the caller's instructions and, for a tip above 0, the transfer
\* to the tip account that was drawn
FinalIxs(cus, user_ixs, t, a) ==
    << set_compute_unit_limit(cus) >> \o user_ixs
        \o (IF t > 0 THEN << transfer(a, t) >> ELSE << >>)

\* send_and_confirm.rs:72-74
SendClient(t) == IF t > 0 THEN "jito" ELSE "rpc"

\* main.rs:129-140: the tip stream task stores the tip of a message it received
TipFeed ==
    /\ \E t \in 0 .. MaxTip :
          /\ t # tip
          /\ tip' = t
    /\ UNCHANGED << pc, searchVars, submitVars, mineVars, pureVars >>

\* a variant of SacBegin: the tip is read again for the second "if", after a
\* write of the tip stream task
SacBegin_ReadsTwice ==
    /\ pc = "sac"
    /\ pc' = "sign"
    /\ send_client' = SendClient(tip)
    /\ \E t \in 0 .. MaxTip, a \in 0 .. (TIP_ACCOUNTS - 1) :
          /\ jito_tip' = t
          /\ final_ixs' = FinalIxs(COMPUTE_BUDGET, ixs, t, a)
    /\ attempts' = 0
    /\ tx_hash' = 0
    /\ confirm_i' = 0
    /\ outcome' = "none"
    /\ sends' = 0
    /\ last_poll' = NoPoll
    /\ any_send_ok' = FALSE
    /\ reset_seen' = FALSE
    /\ resent' = FALSE
    /\ sent_via' = {}
    /\ UNCHANGED << skip_confirm, searchIdle, solution, mineVars, tip, pureVars >>

\* send_and_confirm.rs:50-109: the tip is read once, the instruction list and
\* the transaction are built and the attempt counter starts at 0
SacBegin ==
    /\ pc = "sac"
    /\ pc' = "sign"
    /\ jito_tip' = tip
    /\ send_client' = SendClient(tip)
    /\ \E a \in 0 .. (TIP_ACCOUNTS - 1) :
          final_ixs' = FinalIxs(COMPUTE_BUDGET, ixs, tip, a)
    /\ attempts' = 0
    /\ tx_hash' = 0
    /\ confirm_i' = 0
    /\ outcome' = "none"
    /\ sends' = 0
    /\ last_poll' = NoPoll
    /\ any_send_ok' = FALSE
    /\ reset_seen' = FALSE
    /\ resent' = FALSE
    /\ sent_via' = {}
    /\ UNCHANGED << skip_confirm, searchIdle, solution, mineVars, tip, pureVars >>

\* a variant of SacSign: the transaction is built again at every signing
SacSign_Rebuild ==
    /\ pc = "sign"
    /\ IF NeedsSigning(attempts)
       THEN \/ /\ tx_hash' = tx_hash + 1
               /\ pc' = "send"
               /\ outcome' = outcome
               /\ \E a \in 0 .. (TIP_ACCOUNTS - 1) :
                     final_ixs' = FinalIxs(COMPUTE_BUDGET, ixs, jito_tip, a)
            \/ /\ outcome' = "Err:Blockhash"
               /\ pc' = "returned"
               /\ UNCHANGED << tx_hash, final_ixs >>
       ELSE /\ pc' = "send"
            /\ UNCHANGED << tx_hash, outcome, final_ixs >>
    /\ UNCHANGED << skip_confirm, attempts, confirm_i, sends, last_poll,
                    any_send_ok, reset_seen, resent, sent_via, searchIdle,
                    solution, mineVars >>
    /\ UNCHANGED << jito_tip, send_client, tip, pureVars >>

\* send_and_confirm.rs:110-122: at every RESIGN_EVERY-th attempt a blockhash is
\* fetched, whose failure ends the call, and the transaction is signed with it
\* (tx.sign sets the blockhash and the signatures of the transaction only)
SacSign ==
    /\ pc = "sign"
    /\ IF NeedsSigning(attempts)
       THEN \/ /\ tx_hash' = tx_hash + 1
               /\ pc' = "send"
               /\ outcome' = outcome
            \/ /\ outcome' = "Err:Blockhash"
               /\ pc' = "returned"
               /\ tx_hash' = tx_hash
       ELSE /\ pc' = "send"
            /\ UNCHANGED << tx_hash, outcome >>
    /\ UNCHANGED << skip_confirm, attempts, confirm_i, sends, last_poll,
                    any_send_ok, reset_seen, resent, sent_via, searchIdle,
                    solution, mineVars >>
    /\ UNCHANGED << txVars, tip, pureVars >>

\* a variant of SacSend: an accepted broadcast is polled for whatever
\* skip_confirm is
SacSend_AlwaysPoll ==
    /\ pc = "send"
    /\ sends < MaxSends
    /\ attempts' = attempts + 1
    /\ sends' = sends + 1
    /\ resent' = (resent \/ reset_seen)
    /\ sent_via' = sent_via \cup {send_client}
    /\ confirm_i' = 0
    /\ \/ /\ any_send_ok' = TRUE
          /\ outcome' = outcome
          /\ pc' = "poll"
       \/ /\ pc' = "retry"
          /\ UNCHANGED << any_send_ok, outcome >>
    /\ UNCHANGED << skip_confirm, tx_hash, last_poll, reset_seen,
                    searchIdle, solution, mineVars >>
    /\ UNCHANGED << txVars, tip, pureVars >>

\* send_and_confirm.rs:124-132 and 247-250: one broadcast
SacSend ==
    /\ pc = "send"
    /\ sends < MaxSends
    /\ attempts' = attempts + 1
    /\ sends' = sends + 1
    /\ resent' = (resent \/ reset_seen)
    /\ sent_via' = sent_via \cup {send_client}
    /\ confirm_i' = 0
    /\ \/ /\ any_send_ok' = TRUE
          /\ IF skip_confirm
             THEN outcome' = "Ok" /\ pc' = "returned"
             ELSE outcome' = outcome /\ pc' = "poll"
       \/ /\ pc' = "retry"
          /\ UNCHANGED << any_send_ok, outcome >>
    /\ UNCHANGED << skip_confirm, tx_hash, last_poll, reset_seen,
                    searchIdle, solution, mineVars >>
    /\ UNCHANGED << txVars, tip, pureVars >>

\* send_and_confirm.rs:135-244: one iteration of the 'confirm loop
SacPoll ==
    /\ pc = "poll"
    /\ \E r \in PollResponses :
          /\ last_poll' = r
          /\ CASE Classify(r) = "reset" ->
                    /\ attempts' = 0
                    /\ reset_seen' = TRUE
                    /\ pc' = "retry"
                    /\ UNCHANGED << outcome, confirm_i >>
               [] Classify(r) = "fatal" ->
                    /\ outcome' = "Err:OnChain"
                    /\ pc' = "returned"
                    /\ UNCHANGED << attempts, reset_seen, confirm_i >>
               [] Classify(r) = "ok" ->
                    /\ outcome' = "Ok"
                    /\ pc' = "returned"
                    /\ UNCHANGED << attempts, reset_seen, confirm_i >>
               [] OTHER ->
                    /\ confirm_i' = confirm_i + 1
                    /\ pc' = IF confirm_i + 1 >= CONFIRM_RETRIES
                             THEN "retry" ELSE "poll"
                    /\ UNCHANGED << attempts, reset_seen, outcome >>
    /\ UNCHANGED << skip_confirm, tx_hash, sends, any_send_ok, resent, sent_via,
                    searchIdle, solution, mineVars >>
    /\ UNCHANGED << txVars, tip, pureVars >>

\* send_and_confirm.rs:253-261: the call gives up or goes round again
SacRetry ==
    /\ pc = "retry"
    /\ IF RetriesExhausted(attempts)
       THEN outcome' = "Err:MaxRetries" /\ pc' = "returned"
       ELSE outcome' = outcome /\ pc' = "sign"
    /\ UNCHANGED << skip_confirm, attempts, tx_hash, confirm_i, sends,
                    last_poll, any_send_ok, reset_seen, resent, sent_via,
                    searchIdle,
                    solution, mineVars >>
    /\ UNCHANGED << txVars, tip, pureVars >>

\* one call of send_and_confirm
InitSubmit ==
    /\ pc = "sac"
    /\ cores = 0
    /\ core_ids = {0}
    /\ cutoff_time = 0
    /\ min_difficulty = 0
    /\ nonce_indices = NonceIndices(0)
    /\ global_best_difficulty = 0
    /\ clock = 0
    /\ wpc = [i \in Ids |-> "off"]
    /\ timer = [i \in Ids |-> 0]
    /\ nonce = [i \in Ids |-> 0]
    /\ best_nonce = [i \in Ids |-> 0]
    /\ best_difficulty = [i \in Ids |-> 0]
    /\ hxs = [i \in Ids |-> << >>]
    /\ gbd_read = [i \in Ids |-> 0]
    /\ solution = DefaultSolution
    /\ batches = [i \in Ids |-> 0]
    /\ max_published = 0
    /\ skip_confirm \in BOOLEAN
    /\ attempts = 0
    /\ tx_hash = 0
    /\ confirm_i = 0
    /\ outcome = "none"
    /\ sends = 0
    /\ last_poll = NoPoll
    /\ any_send_ok = FALSE
    /\ reset_seen = FALSE
    /\ resent = FALSE
    /\ sent_via = {}
    /\ jito_tip = 0
    /\ send_client = "rpc"
    /\ final_ixs = << >>
    /\ buffer_time = 0
    /\ last_hash_at = 0
    /\ bus = 0
    /\ ixs = CallerIxs(bus, solution)
    /\ tip \in 0 .. MaxTip
    /\ PureIdle

NextSubmit ==
    \/ TipFeed
    \/ SacBegin
    \/ SacSign
    \/ SacSend
    \/ SacPoll
    \/ SacRetry

SubmitSpec == InitSubmit /\ [][NextSubmit]_vars

\* --------------------------------------------------------------------- mine
\* i64::saturating_add and i64::saturating_sub at the model's width
saturating_add(a, b) == Max(-I64Max - 1, Min(I64Max, a + b))
saturating_sub(a, b) == Max(-I64Max - 1, Min(I64Max, a - b))

\* mine.rs:234, "buffer_time as i64": the u64 is reinterpreted, so a value
\* above i64::MAX becomes negative
as_i64(u) == IF u > I64Max THEN u - 2 * (I64Max + 1) ELSE u

\* a variant of get_cutoff without the ".max(0)": the final "as u64"
\* reinterprets a negative difference
get_cutoff_NoFloor(lha, buf, now) ==
    LET r == saturating_sub(saturating_sub(saturating_add(lha, EPOCH_SECS),
                                           as_i64(buf)), now)
    IN  IF r < 0 THEN r + 2 * (I64Max + 1) ELSE r

\* mine.rs:230-237
get_cutoff(lha, buf, now) ==
    Max(saturating_sub(saturating_sub(saturating_add(lha, EPOCH_SECS),
                                      as_i64(buf)), now), 0)

\* i64 and u64 values at most 1 away from the ends of their range, from 0 and
\* from the length of an epoch
I64Edges ==
    {x \in (-I64Max - 1) .. I64Max :
        \E a \in {-I64Max - 1, -EPOCH_SECS, 0, EPOCH_SECS, I64Max} :
            x - a \in -1 .. 1}

U64Edges ==
    {x \in 0 .. (2 * I64Max + 1) :
        \E a \in {0, EPOCH_SECS, I64Max, I64Max + 1, 2 * I64Max + 1} :
            x - a \in -1 .. 1}

\* the unix timestamps get_clock may return
UnixTimes == EPOCH_SECS .. (EPOCH_SECS + MaxHashAt)

\* what get_multiple_accounts may return for one bus address: no account,
\* data that does not decode, or a Bus with its rewards (its id is its index)
BusAccounts ==
    {[kind |-> "none", rewards |-> 0], [kind |-> "bad", rewards |-> 0]}
    \cup [kind : {"bus"}, rewards : 0 .. MaxRewards]

BusReads == [0 .. (BUS_COUNT - 1) -> BusAccounts]

\* mine.rs:242-254, the scan for the bus with the largest rewards
RECURSIVE TopBusFrom(_, _, _, _)
TopBusFrom(accounts, i, top_bus_balance, top_bus) ==
    IF i >= BUS_COUNT THEN top_bus
    ELSE IF accounts[i].kind = "bus" /\ accounts[i].rewards > top_bus_balance
         THEN TopBusFrom(accounts, i + 1, accounts[i].rewards, i)
         ELSE TopBusFrom(accounts, i + 1, top_bus_balance, top_bus)

\* a variant of find_bus: the random index is drawn from 0 ..= BUS_COUNT
find_bus_InclusiveRange(ok, accounts) ==
    IF ok THEN {TopBusFrom(accounts, 0, 0, 0)}
    ELSE 0 .. BUS_COUNT

\* mine.rs:239-260: the buses find_bus may return for a read result
find_bus(ok, accounts) ==
    IF ok THEN {TopBusFrom(accounts, 0, 0, 0)}
    ELSE 0 .. (BUS_COUNT - 1)

\* every bus find_bus may return, over all read results
BusChoices == UNION {find_bus(ok, accounts) : ok \in BOOLEAN, accounts \in BusReads}

\* mine.rs:38-60: config and proof are fetched
MineFetch ==
    /\ pc = "fetch"
    /\ pc' = "cutoff"
    /\ min_difficulty' \in 0 .. MaxDifficulty
    /\ last_hash_at' \in 0 .. MaxHashAt
    /\ UNCHANGED << cores, core_ids, cutoff_time, nonce_indices,
                    global_best_difficulty, clock, wpc, timer, nonce, best_nonce,
                    best_difficulty, hxs, gbd_read, solution, batches,
                    max_published, submitVars, buffer_time, bus, ixs, tip,
                    pureVars >>

\* mine.rs:62-70: the cutoff is computed from the chain clock and the nonce
\* offsets are built
MineCutoff ==
    /\ pc = "cutoff"
    /\ pc' = "spawn"
    /\ \E now \in UnixTimes :
          cutoff_time' = get_cutoff(last_hash_at, buffer_time, now)
    /\ nonce_indices' = NonceIndices(cores)
    /\ UNCHANGED << cores, core_ids, min_difficulty, global_best_difficulty,
                    clock, wpc, timer, nonce, best_nonce, best_difficulty, hxs,
                    gbd_read, solution, batches, max_published, submitVars,
                    mineVars, tip, pureVars >>

\* mine.rs:81-97: find_hash_par has returned and its threads and tracker are
\* gone; the bus is chosen, the instructions are built and send_and_confirm is
\* called (the call site names no skip_confirm: either mode is taken)
MineBuild ==
    /\ pc = "joined"
    /\ pc' = "sac"
    /\ \E b \in BusChoices :
          /\ bus' = b
          /\ ixs' = CallerIxs(b, solution)
    /\ skip_confirm' \in BOOLEAN
    /\ global_best_difficulty' = 0
    /\ clock' = 0
    /\ wpc' = [i \in Ids |-> "off"]
    /\ timer' = [i \in Ids |-> 0]
    /\ nonce' = [i \in Ids |-> 0]
    /\ best_nonce' = [i \in Ids |-> 0]
    /\ best_difficulty' = [i \in Ids |-> 0]
    /\ hxs' = [i \in Ids |-> << >>]
    /\ gbd_read' = [i \in Ids |-> 0]
    /\ batches' = [i \in Ids |-> 0]
    /\ max_published' = 0
    /\ cutoff_time' = 0
    /\ min_difficulty' = 0
    /\ UNCHANGED << cores, core_ids, nonce_indices, solution, attempts, tx_hash,
                    confirm_i, outcome, sends, last_poll, any_send_ok,
                    reset_seen, resent, sent_via, txVars, buffer_time,
                    last_hash_at,
                    tip, pureVars >>

\* a variant of MineLoop: an Err of send_and_confirm ends the loop
MineLoop_StopOnErr ==
    /\ pc = "returned"
    /\ pc' = IF outcome = "Ok" THEN "fetch" ELSE "stopped"
    /\ solution' = DefaultSolution
    /\ bus' = 0
    /\ skip_confirm' = FALSE
    /\ attempts' = 0
    /\ tx_hash' = 0
    /\ confirm_i' = 0
    /\ sends' = 0
    /\ last_poll' = NoPoll
    /\ any_send_ok' = FALSE
    /\ reset_seen' = FALSE
    /\ resent' = FALSE
    /\ sent_via' = {}
    /\ jito_tip' = 0
    /\ send_client' = "rpc"
    /\ final_ixs' = << >>
    /\ ixs' = << >>
    /\ UNCHANGED << cores, core_ids, cutoff_time, min_difficulty, nonce_indices,
                    global_best_difficulty, clock, wpc, timer, nonce, best_nonce,
                    best_difficulty, hxs, gbd_read, batches, max_published,
                    outcome, buffer_time, last_hash_at, tip, pureVars >>

\* mine.rs:97-98: .ok() drops the Result, whatever it is, and the loop goes on;
\* the locals of the call and of the loop body are gone (outcome stays as the
\* record of what the latest call returned)
MineLoop ==
    /\ pc = "returned"
    /\ pc' = "fetch"
    /\ solution' = DefaultSolution
    /\ bus' = 0
    /\ skip_confirm' = FALSE
    /\ attempts' = 0
    /\ tx_hash' = 0
    /\ confirm_i' = 0
    /\ sends' = 0
    /\ last_poll' = NoPoll
    /\ any_send_ok' = FALSE
    /\ reset_seen' = FALSE
    /\ resent' = FALSE
    /\ sent_via' = {}
    /\ jito_tip' = 0
    /\ send_client' = "rpc"
    /\ final_ixs' = << >>
    /\ ixs' = << >>
    /\ UNCHANGED << searchIdle, outcome, buffer_time, last_hash_at, tip,
                    pureVars >>

\* the mine command
InitMine ==
    /\ pc = "fetch"
    /\ cores \in 0 .. MineCores
    /\ core_ids = Ids
    /\ cutoff_time = 0
    /\ min_difficulty = 0
    /\ nonce_indices = NonceIndices(cores)
    /\ global_best_difficulty = 0
    /\ clock = 0
    /\ wpc = [i \in Ids |-> "off"]
    /\ timer = [i \in Ids |-> 0]
    /\ nonce = [i \in Ids |-> 0]
    /\ best_nonce = [i \in Ids |-> 0]
    /\ best_difficulty = [i \in Ids |-> 0]
    /\ hxs = [i \in Ids |-> << >>]
    /\ gbd_read = [i \in Ids |-> 0]
    /\ solution = DefaultSolution
    /\ batches = [i \in Ids |-> 0]
    /\ max_published = 0
    /\ SubmitIdle
    /\ buffer_time \in 0 .. MaxBuffer
    /\ last_hash_at = 0
    /\ bus = 0
    /\ ixs = << >>
    /\ tip = 0
    /\ PureIdle

NextMine ==
    \/ TipFeed
    \/ MineFetch
    \/ MineCutoff
    \/ Spawn
    \/ Tick
    \/ \E w \in Ids : Worker(w)
    \/ Join
    \/ MineBuild
    \/ SacBegin
    \/ SacSign
    \/ SacSend
    \/ SacPoll
    \/ SacRetry
    \/ MineLoop

MineSpec == InitMine /\ [][NextMine]_vars

\* ------------------------------------------- functions checked on their own
\* the rest of the program is not running
AllOff ==
    /\ pc = "call"
    /\ SearchOff
    /\ SubmitIdle
    /\ MineIdle
    /\ tip = 0

\* mine.rs:66-70 for every width of the nonce up to MaxWidth and every
\* args.cores of that width
InitPartition ==
    /\ AllOff
    /\ call \in {[fn |-> "nonce_indices", max |-> m, cores |-> c] :
                    m \in 1 .. MaxWidth, c \in 0 .. MaxWidth}
    /\ call.cores <= call.max
    /\ ret = << >>

\* mine.rs:67-70, one iteration of the loop that builds nonce_indices
NonceIndexPush ==
    /\ call.fn = "nonce_indices"
    /\ Len(ret) < call.cores
    /\ ret' = Append(ret, nonce_index_at(call.max, call.cores, Len(ret)))
    /\ UNCHANGED << pc, searchVars, submitVars, mineVars, tip, call >>

NextPartition == NonceIndexPush

PartitionSpec == InitPartition /\ [][NextPartition]_vars

\* mine.rs:241: a batched read that failed, or one that succeeded with an
\* account (or none) for each of the BUS_COUNT addresses
InitBus ==
    /\ AllOff
    /\ call \in {[fn |-> "find_bus", ok |-> TRUE, accounts |-> a] : a \in BusReads}
               \cup {[fn |-> "find_bus", ok |-> FALSE, accounts |-> << >>]}
    /\ ret = << >>

\* mine.rs:239-260: find_bus returns
FindBus ==
    /\ call.fn = "find_bus"
    /\ ret = << >>
    /\ \E b \in find_bus(call.ok, call.accounts) : ret' = << b >>
    /\ UNCHANGED << pc, searchVars, submitVars, mineVars, tip, call >>

NextBus == FindBus

BusSpec == InitBus /\ [][NextBus]_vars

\* every result a handle may give for its join
JoinResults(w) ==
    {JoinErr(w)} \cup {JoinOk(w, n, d) : n \in 0 .. NonceMax, d \in 0 .. MaxDifficulty}

\* mine.rs:193-205 for every vector of up to MaxHandles join results
InitJoin ==
    /\ AllOff
    /\ \E len \in 0 .. MaxHandles :
          \E rs \in [1 .. len -> JoinResults(0)] :
             call = [fn |-> "join",
                     handles |-> [k \in 1 .. len |-> [rs[k] EXCEPT !.worker = k - 1]]]
    /\ ret = << >>

\* mine.rs:193-216: the handles are joined and the best result is returned
JoinHandles ==
    /\ call.fn = "join"
    /\ ret = << >>
    /\ ret' = << JoinLoop(call.handles, DefaultSolution) >>
    /\ UNCHANGED << pc, searchVars, submitVars, mineVars, tip, call >>

NextJoin == JoinHandles

JoinSpec == InitJoin /\ [][NextJoin]_vars

\* mine.rs:282
DISCRIMINATOR == << 170, 66, 140, 123, 15, 20, 224, 194 >>

\* bytemuck::bytes_of of the repr(C) struct Mine (mine.rs:273-278): the bytes
\* of its fields in the order they are declared; both fields are byte arrays,
\* so nothing is padded
bytes_of(m) == m.digest \o m.nonce

\* a variant of to_bytes: the nonce is laid out before the digest
to_bytes_NonceFirst(m) == DISCRIMINATOR \o m.nonce \o m.digest

\* mine.rs:281-285, Mine::to_bytes
to_bytes(m) == DISCRIMINATOR \o bytes_of(m)

\* mine.rs:288-315: the mine instruction for a bus and a solution with digest
\* d and nonce bytes n; of its accounts only the bus varies
mine(b, sol) ==
    [kind |-> "mine",
     accounts |-> << "signer", "pool", "proof", b, "config", "program",
                     "slot_hashes", "instructions" >>,
     data |-> to_bytes([digest |-> sol.d, nonce |-> sol.n])]

\* the byte values told apart, and the byte strings of a length that hold one
\* of them at one place and another everywhere else
ByteSamples == {0, 170, 255}

ByteStrings(len) ==
    {[i \in 1 .. len |-> IF i = p THEN b ELSE f] :
        p \in 1 .. len, b \in ByteSamples, f \in ByteSamples}

\* mine.rs:288-294 for a bus, a digest and the bytes of a nonce
InitCodec ==
    /\ AllOff
    /\ call \in {[fn |-> "mine", bus |-> b, d |-> d, n |-> n] :
                    b \in 0 .. (BUS_COUNT - 1),
                    d \in ByteStrings(DIGEST_LEN),
                    n \in ByteStrings(NONCE_LEN)}
    /\ ret = << >>

\* mine.rs:288-315: the instruction is built
MineEncode ==
    /\ call.fn = "mine"
    /\ ret = << >>
    /\ ret' = << mine(call.bus, [d |-> call.d, n |-> call.n]) >>
    /\ UNCHANGED << pc, searchVars, submitVars, mineVars, tip, call >>

NextCodec == MineEncode

CodecSpec == InitCodec /\ [][NextCodec]_vars

\* mine.rs:230-231: get_cutoff is called with a last_hash_at and a buffer_time,
\* and get_clock answers with a unix_timestamp
InitCutoff ==
    /\ AllOff
    /\ call \in {[fn |-> "get_cutoff", lha |-> l, buf |-> b, now |-> n] :
                    l \in I64Edges, b \in U64Edges, n \in I64Edges}
    /\ ret = << >>

\* mine.rs:232-236: get_cutoff returns
GetCutoff ==
    /\ call.fn = "get_cutoff"
    /\ ret = << >>
    /\ ret' = << get_cutoff(call.lha, call.buf, call.now) >>
    /\ UNCHANGED << pc, searchVars, submitVars, mineVars, tip, call >>

NextCutoff == GetCutoff

CutoffSpec == InitCutoff /\ [][NextCutoff]_vars

\* ------------------------------------------------------------------ claims
\* nonces from n to the first stop check at or after n
StepsToCheck(n) == (CheckEvery - (n % CheckEvery)) % CheckEvery

DeadlineElapsed ==
    \A w \in Workers : wpc[w] # "start" /\ clock - timer[w] >= cutoff_time

\* C1: the tracker never decreases during a round, and once every worker has
\* finished it holds the largest value any worker published.
C1_TrackerMonotonic ==
    /\ [][pc = "running" => global_best_difficulty' >= global_best_difficulty]_vars
    /\ [](pc = "running" /\ AllDone => global_best_difficulty = max_published)

C3_BoundedBroadcasts ==
    /\ sends <= GATEWAY_RETRIES + 1
    /\ confirm_i <= CONFIRM_RETRIES

\* C4: a call all of whose broadcasts failed returns "Max retries", and no
\* signature, after exactly GATEWAY_RETRIES + 1 broadcasts.
C4_MaxRetries ==
    (pc = "returned" /\ sends >= 1 /\ ~any_send_ok) =>
        (outcome = "Err:MaxRetries" /\ sends = GATEWAY_RETRIES + 1)

C4_Witness ==
    /\ pc = "returned"
    /\ ~any_send_ok
    /\ outcome = "Err:MaxRetries"
    /\ sends = 2

\* C5 as stated: after a fatal error of the submission nothing more happens in
\* the mine loop.
C5_FatalEndsLoop == (outcome \in FatalOutcomes) => pc = "returned"

\* C5 as amended: whatever send_and_confirm returned, a fatal error included,
\* the mine loop goes on with the next cycle, which fetches config and proof
\* again.
C5_LoopGoesOn ==
    [][pc = "returned" => (pc' = "fetch" /\ outcome' = outcome)]_<< pc, submitVars >>

C5_Witness ==
    /\ outcome \in FatalOutcomes
    /\ pc = "running"
    /\ \E w \in Workers : batches[w] >= 1

\* C6: a poll that reports an on-chain error other than NeedsReset ends the
\* call with an error at once.
C6_FatalAtOnce ==
    (last_poll.kind = "status" /\ last_poll.err \notin {"none", "NeedsReset"}) =>
        (pc = "returned" /\ outcome = "Err:OnChain")

C6_Witness ==
    /\ pc = "returned"
    /\ last_poll.err = "Custom"
    /\ last_poll.conf = "Finalized"
    /\ confirm_i >= 1
    /\ sends >= 2

\* C7: a confirming call returns Ok only on a polled status without error
\* whose confirmation level is Confirmed or Finalized.
C7_OkOnlyConfirmed ==
    (pc = "returned" /\ outcome = "Ok" /\ ~skip_confirm) =>
        /\ last_poll.kind = "status"
        /\ last_poll.err = "none"
        /\ last_poll.conf \in {"Confirmed", "Finalized"}

C7_Witness ==
    /\ pc = "returned"
    /\ outcome = "Ok"
    /\ ~skip_confirm
    /\ last_poll.conf = "Finalized"
    /\ confirm_i >= 1

\* C8: when find_hash_par returns and at least one worker ran, the returned
\* candidate's difficulty is at least min_difficulty.
C8_FloorMet ==
    (pc = "joined" /\ Workers # {}) => solution.difficulty >= min_difficulty

C8_Witness ==
    /\ pc = "joined"
    /\ Cardinality(Workers) >= 2
    /\ min_difficulty >= 1
    /\ clock >= 1
    /\ global_best_difficulty < max_published

\* C9 as stated: with cutoff 0 and min_difficulty 0 no worker hashes more than
\* one batch.
C9_OneBatchEach ==
    (cutoff_time = 0 /\ min_difficulty = 0) =>
        \A w \in Workers : batches[w] <= 1

\* C9 as amended: with cutoff 0 and min_difficulty 0 a worker leaves its loop at
\* the first stop check it comes to, having hashed every nonce from its offset
\* to the first check nonce (one batch for worker 0, whose offset is 0), and the
\* search returns the largest difficulty of those batches.
C9_StopAtFirstCheck ==
    (cutoff_time = 0 /\ min_difficulty = 0 /\ pc \in {"running", "joined"}) =>
        /\ \A w \in Workers :
              /\ batches[w] <= StepsToCheck(nonce_indices[w]) + 1
              /\ wpc[w] = "done" =>
                    batches[w] = StepsToCheck(nonce_indices[w]) + 1
              /\ (w = 0 /\ wpc[w] = "done") => batches[w] = 1
        /\ pc = "joined" =>
              /\ \A w \in Workers : solution.difficulty >= best_difficulty[w]
              /\ solution.difficulty > 0 =>
                    \E w \in Workers : solution.difficulty = best_difficulty[w]

C9_Witness ==
    /\ cutoff_time = 0
    /\ min_difficulty = 0
    /\ pc = "joined"
    /\ \E w \in Workers : batches[w] >= 2
    /\ solution.difficulty > 0

\* C10: once the deadline has elapsed for every worker and some worker has
\* hashed a digest of at least min_difficulty, find_hash_par returns.
C10_SearchReturns ==
    (pc = "running" /\ Workers # {} /\ DeadlineElapsed
        /\ \E w \in Workers : best_difficulty[w] >= min_difficulty)
    ~> (pc = "joined")

\* the positions of the instructions of a kind in an instruction list
Positions(list, kinds) == {i \in 1 .. Len(list) : list[i].kind \in kinds}

Transfers == Positions(final_ixs, {"transfer"})

DomainIxs == Positions(final_ixs, {"auth", "mine"})

\* C11 as stated: the list send_and_confirm builds holds no transfer for a tip
\* of 0 and, for a tip above 0, exactly one transfer, to one of the
\* TIP_ACCOUNTS tip accounts, placed before the auth and mine instructions.
C11_TipBeforeDomain ==
    final_ixs # << >> =>
        /\ jito_tip = 0 => Transfers = {}
        /\ jito_tip > 0 =>
              /\ Cardinality(Transfers) = 1
              /\ \A i \in Transfers :
                    /\ final_ixs[i].acct \in 0 .. (TIP_ACCOUNTS - 1)
                    /\ \A j \in DomainIxs : i < j

\* C11 as amended: no transfer for a tip of 0; for a tip above 0 exactly one
\* transfer, of the tip that was read, to one of the TIP_ACCOUNTS tip accounts,
\* placed last in the list, after the auth and mine instructions.
C11_TipAfterDomain ==
    final_ixs # << >> =>
        /\ DomainIxs # {}
        /\ jito_tip = 0 => Transfers = {}
        /\ jito_tip > 0 =>
              /\ Transfers = {Len(final_ixs)}
              /\ \A i \in Transfers :
                    /\ final_ixs[i].acct \in 0 .. (TIP_ACCOUNTS - 1)
                    /\ final_ixs[i].val = jito_tip
                    /\ \A j \in DomainIxs : j < i

C11_Witness ==
    /\ pc = "poll"
    /\ jito_tip > 0
    /\ tip = 0
    /\ Len(final_ixs) = 4
    /\ final_ixs[4].kind = "transfer"
    /\ final_ixs[4].acct = TIP_ACCOUNTS - 1

\* C12: when the search produced no candidate (no worker ran, or every worker
\* returned difficulty 0) and its result is the zero-difficulty default, mine
\* builds no instruction list from that default and broadcasts nothing for it.
C12_DefaultNotSubmitted ==
    solution = DefaultSolution => (ixs = << >> /\ final_ixs = << >> /\ sends = 0)

\* C13: for every worker count from 1 to the largest value of the nonce, the
\* start offsets are floor(MAX / count) * i exactly (nothing saturates), stay
\* within the nonce width and are strictly increasing, hence pairwise distinct.
C13_OffsetsIncrease ==
    call.fn = "nonce_indices" =>
        /\ \A i \in 1 .. Len(ret) :
              /\ ret[i] = (call.max \div call.cores) * (i - 1)
              /\ ret[i] <= call.max
        /\ \A i, j \in 1 .. Len(ret) : i < j => ret[i] < ret[j]

C13_Witness ==
    /\ call.fn = "nonce_indices"
    /\ call.max = MaxWidth
    /\ call.cores = MaxWidth - 1
    /\ Len(ret) = call.cores
    /\ ret[Len(ret)] = MaxWidth - 2

\* the addresses whose account decodes to a Bus, and the largest rewards among
\* them
Decodable(accounts) == {i \in 0 .. (BUS_COUNT - 1) : accounts[i].kind = "bus"}

TopRewards(accounts) ==
    CHOOSE r \in 0 .. MaxRewards :
        /\ \E i \in Decodable(accounts) : accounts[i].rewards = r
        /\ \A i \in Decodable(accounts) : accounts[i].rewards <= r

C15_LargestDecodable ==
    (call.fn = "find_bus" /\ call.ok /\ ret # << >>
        /\ Decodable(call.accounts) # {}) =>
        /\ ret[1] \in Decodable(call.accounts)
        /\ call.accounts[ret[1]].rewards = TopRewards(call.accounts)
        /\ \A i \in Decodable(call.accounts) :
              call.accounts[i].rewards = TopRewards(call.accounts) => ret[1] <= i

\* the handles that joined, and the largest difficulty among them (0 if none)
Joined(hs) == {k \in 1 .. Len(hs) : hs[k].ok}

TopDifficulty(hs) ==
    CHOOSE d \in 0 .. MaxDifficulty :
        /\ \A k \in Joined(hs) : hs[k].difficulty <= d
        /\ d > 0 => \E k \in Joined(hs) : hs[k].difficulty = d

\* C16: the join loop always returns; the difficulty it returns is the
\* largest among the workers that joined; when that is above 0 the nonce
\* returned is that of the first handle, in spawn order, that joined with that
\* difficulty; a handle whose join failed contributes nothing, and with nothing
\* above 0 the default is returned.
C16_FirstMaxJoined ==
    call.fn = "join" =>
        /\ ret = << >> => ENABLED JoinHandles
        /\ ret # << >> =>
              LET hs == call.handles
                  top == TopDifficulty(hs)
              IN /\ ret[1].difficulty = top
                 /\ top = 0 => ret[1] = DefaultSolution
                 /\ top > 0 =>
                       \E k \in Joined(hs) :
                          /\ hs[k].difficulty = top
                          /\ \A j \in Joined(hs) : hs[j].difficulty = top => k <= j
                          /\ ret[1].nonce = hs[k].nonce
                          /\ ret[1].worker = hs[k].worker

C16_Witness ==
    /\ call.fn = "join"
    /\ ret # << >>
    /\ Len(call.handles) = 3
    /\ ~call.handles[1].ok
    /\ call.handles[2] = JoinOk(1, 1, MaxDifficulty)
    /\ call.handles[3] = JoinOk(2, 0, MaxDifficulty)
    /\ ret[1] = [nonce |-> 1, difficulty |-> MaxDifficulty, worker |-> 1]

\* C17: in a cycle the instruction list is built only after the join loop has
\* joined every worker; the list of the transaction is complete (the unit
\* limit, then the list mine built from the solution and the bus) when the
\* transaction is signed for the first time; and from the first signing to the
\* end of the call the list is never changed.
C17_PhasesOrdered ==
    /\ [][(ixs = << >> /\ ixs' # << >>) =>
            (pc = "joined" /\ AllDone /\ solution' = solution
                /\ ixs' = CallerIxs(bus', solution))]_vars
    /\ [][(tx_hash = 0 /\ tx_hash' > 0) =>
            (/\ final_ixs' = final_ixs
             /\ Len(final_ixs) >= 1 + Len(ixs)
             /\ final_ixs[1].kind = "set_compute_unit_limit"
             /\ SubSeq(final_ixs, 2, 1 + Len(ixs)) = ixs
             /\ ixs = CallerIxs(bus, solution))]_vars
    /\ [][(tx_hash > 0 /\ tx_hash' > 0) => final_ixs' = final_ixs]_vars

C17_Witness ==
    /\ pc = "poll"
    /\ tx_hash >= 2
    /\ Len(final_ixs) = 4
    /\ solution.worker >= 0
    /\ solution.nonce >= 1
    /\ bus >= 1

\* C18: a call with skip_confirm set returns Ok as soon as a broadcast is
\* accepted, which is the only way it returns Ok, and polls no status at all.
C18_SkipConfirm ==
    (skip_confirm /\ pc \in {"sign", "send", "poll", "retry", "returned"}) =>
        /\ pc # "poll"
        /\ last_poll = NoPoll
        /\ confirm_i = 0
        /\ any_send_ok <=> (pc = "returned" /\ outcome = "Ok")

C18_Witness ==
    /\ skip_confirm
    /\ pc = "returned"
    /\ outcome = "Ok"
    /\ sends = 2
    /\ last_poll = NoPoll

\* C19: the data of the mine instruction is 32 bytes, the discriminator, then
\* the digest, then the nonce, so that bytes 8..24 and 24..32 give back the
\* digest and the nonce it was built from, whatever the bus is.
C19_DataRoundTrip ==
    (call.fn = "mine" /\ ret # << >>) =>
        LET data == ret[1].data
        IN /\ Len(data) = 32
           /\ SubSeq(data, 1, 8) = << 170, 66, 140, 123, 15, 20, 224, 194 >>
           /\ SubSeq(data, 9, 24) = call.d
           /\ SubSeq(data, 25, 32) = call.n
           /\ ret[1].accounts[4] = call.bus

C19_Witness ==
    /\ call.fn = "mine"
    /\ ret # << >>
    /\ call.bus = BUS_COUNT - 1
    /\ call.d[DIGEST_LEN] = 170
    /\ call.d[1] = 255
    /\ call.n[1] = 170
    /\ call.n[NONCE_LEN] = 0
    /\ ret[1].data[24] = 170
    /\ ret[1].data[25] = 170

\* C20: a worker leaves its search loop only at a stop check at which the time
\* elapsed since it started is at least the cutoff and the tracker value it
\* read at that check is at least min_difficulty, whatever it has found.
C20_NoEarlyExit ==
    [][\A w \in Workers :
          (wpc[w] # "done" /\ wpc'[w] = "done") =>
              /\ wpc[w] = "time"
              /\ clock - timer[w] >= cutoff_time
              /\ gbd_read[w] >= min_difficulty
              /\ gbd_read'[w] = gbd_read[w]]_vars

C20_Witness ==
    /\ pc = "running"
    /\ cutoff_time >= 1
    /\ min_difficulty = MaxDifficulty
    /\ \E w \in Workers :
          /\ wpc[w] = "done"
          /\ best_difficulty[w] < min_difficulty
          /\ batches[w] >= 2
    /\ \E w \in Workers :
          /\ wpc[w] = "hash"
          /\ best_difficulty[w] = MaxDifficulty
          /\ clock - timer[w] < cutoff_time

\* C21: every broadcast sends a signed transaction and leaves its signature
\* alone; at an attempt counter that is a multiple of RESIGN_EVERY (0 at the
\* start of the call and after a NeedsReset) the transaction is signed with a
\* newly fetched blockhash before the broadcast, or the fetch fails and the
\* call ends with an error without a broadcast; at every other attempt the
\* payload signed before is sent again; nothing but the signing step changes
\* the signed payload.
C21_SignedBroadcasts ==
    [][/\ sends' = sends + 1 => (tx_hash >= 1 /\ tx_hash' = tx_hash)
       /\ (pc = "sign" /\ attempts % RESIGN_EVERY = 0) =>
             \/ pc' = "send" /\ tx_hash' = tx_hash + 1 /\ sends' = sends
             \/ pc' = "returned" /\ outcome' = "Err:Blockhash" /\ sends' = sends
       /\ (pc = "sign" /\ attempts % RESIGN_EVERY # 0) =>
             (pc' = "send" /\ tx_hash' = tx_hash /\ sends' = sends)
       /\ (pc \in {"send", "poll", "retry"}) => tx_hash' = tx_hash
       /\ (pc \in {"poll", "retry"} /\ pc' = "send") => FALSE]_<< pc, submitVars >>

C21_Witness ==
    /\ pc = "poll"
    /\ tx_hash = 2
    /\ sends = 3
    /\ reset_seen
    /\ attempts = 1

\* C22: a broadcast is followed by at most CONFIRM_RETRIES polls; a poll that
\* fails with an RPC error, finds no status, or finds the status Processed
\* without error does not end the call and counts one iteration; after
\* CONFIRM_RETRIES such iterations the call goes to its retry step, which
\* broadcasts again or returns "Max retries".
C22_BoundedPolls ==
    /\ [](confirm_i <= CONFIRM_RETRIES /\ (pc = "poll" => confirm_i < CONFIRM_RETRIES))
    /\ [][(/\ pc = "poll"
            /\ \/ last_poll'.kind \in {"rpc_err", "missing"}
               \/ (last_poll'.err = "none" /\ last_poll'.conf = "Processed")) =>
              /\ outcome' = "none"
              /\ confirm_i' = confirm_i + 1
              /\ sends' = sends
              /\ pc' = IF confirm_i' = CONFIRM_RETRIES THEN "retry" ELSE "poll"]_<< pc, submitVars >>
    /\ [][(pc = "retry" /\ confirm_i = CONFIRM_RETRIES) =>
              \/ pc' = "sign" /\ outcome' = "none"
              \/ pc' = "returned" /\ outcome' = "Err:MaxRetries"]_<< pc, submitVars >>

C22_Witness ==
    /\ pc = "returned"
    /\ outcome = "Err:MaxRetries"
    /\ confirm_i = CONFIRM_RETRIES
    /\ last_poll.conf = "Processed"
    /\ sends = 2
    /\ any_send_ok

\* C23: when the batched read succeeds and no account decodes to a Bus (every
\* entry is missing or undecodable), find_bus chooses among the BUS_COUNT
\* addresses as it does on a failed read: each of them is a possible result.
C23_RandomOnNoBalance ==
    (call.fn = "find_bus" /\ call.ok /\ Decodable(call.accounts) = {}
        /\ ret = << >>) =>
        \A b \in 0 .. (BUS_COUNT - 1) : ENABLED (FindBus /\ ret' = << b >>)

\* C24: in every instruction list that is signed the compute-unit-limit
\* instruction is the first element and is the only one of its kind, and the
\* auth instruction is immediately followed by the mine instruction, with a
\* tip of 0 and with a tip above 0.
C24_LimitFirstAuthBeforeMine ==
    tx_hash >= 1 =>
        /\ Len(final_ixs) >= 3
        /\ final_ixs[1].kind = "set_compute_unit_limit"
        /\ Cardinality(Positions(final_ixs, {"set_compute_unit_limit"})) = 1
        /\ Cardinality(Positions(final_ixs, {"auth"})) = 1
        /\ Cardinality(Positions(final_ixs, {"mine"})) = 1
        /\ \A i \in Positions(final_ixs, {"auth"}) :
              i + 1 \in Positions(final_ixs, {"mine"})

C24_Witness ==
    /\ tx_hash >= 1
    /\ sends >= 1
    /\ jito_tip > 0
    /\ Len(final_ixs) = 4
    /\ final_ixs[2].kind = "auth"
    /\ final_ixs[3].kind = "mine"

\* the difference last_hash_at + 60 - buffer_time - now over the integers
Remaining(lha, buf, now) == lha + EPOCH_SECS - buf - now

\* C25 as stated: get_cutoff returns max(0, last_hash_at + 60 - buffer_time -
\* now) and is never negative, for every last_hash_at, buffer_time and clock
\* value, those where an intermediate sum saturates included.
C25_ExactRemaining ==
    (call.fn = "get_cutoff" /\ ret # << >>) =>
        /\ ret[1] >= 0
        /\ ret[1] = Max(0, Remaining(call.lha, call.buf, call.now))

\* C25: get_cutoff is never negative and never above i64::MAX.  With b the
\* buffer_time read as a signed value and r = last_hash_at + 60 - b - now
\* over the integers, the result is 0 when r <= 0, it is never above r when
\* r > 0, and it is r when none of last_hash_at + 60, last_hash_at + 60 - b
\* and r is above i64::MAX.
C25_ClampedRemaining ==
    (call.fn = "get_cutoff" /\ ret # << >>) =>
        LET b == IF call.buf > I64Max THEN call.buf - 2 * (I64Max + 1)
                 ELSE call.buf
            s1 == call.lha + EPOCH_SECS
            s2 == s1 - b
            r == Remaining(call.lha, b, call.now)
        IN  /\ ret[1] \in 0 .. I64Max
            /\ r <= 0 => ret[1] = 0
            /\ r > 0 => ret[1] <= r
            /\ (s1 <= I64Max /\ s2 <= I64Max /\ r <= I64Max) =>
                  ret[1] = Max(0, r)

C25_Witness ==
    /\ call.fn = "get_cutoff"
    /\ call.lha = I64Max
    /\ call.buf = 1
    /\ call.now = EPOCH_SECS
    /\ ret = << I64Max - 1 - EPOCH_SECS >>

\* the threads find_hash_par spawned
Spawned == {i \in Ids : wpc[i] # "off"}

\* C26: find_hash_par spawns exactly min(cores, number of available core ids)
\* workers; every spawned worker has an id below cores, so nonce_indices[id]
\* exists, and no two workers of the round start from the same offset.
C26_WorkerPerCore ==
    pc \in {"running", "joined"} =>
        /\ Cardinality(Spawned) = Min(cores, Cardinality(core_ids))
        /\ \A i \in Spawned : i < cores /\ i \in DOMAIN nonce_indices
        /\ \A i, j \in Spawned : i # j => nonce_indices[i] # nonce_indices[j]

\* the positions of send_and_confirm once the tip has been read
InCall == {"sign", "send", "poll", "retry", "returned"}

\* C27: the tip is read once in a call: whatever the tip stream task writes
\* afterwards, the client and the instruction list of the call stay as they
\* were built; the list holds the tip transfer exactly when the client is the
\* jito client, the amount of the transfer is the value read, and every
\* broadcast of the call goes to that one client.
C27_TipReadOnce ==
    /\ [](pc \in InCall =>
            /\ (send_client = "jito") <=> (Transfers # {})
            /\ \A i \in Transfers :
                  final_ixs[i].val = jito_tip /\ jito_tip > 0
            /\ sent_via \subseteq {send_client}
            /\ sends >= 1 =>
                  ((sent_via = {"jito"}) <=> (Transfers # {})))
    /\ [][(pc \in InCall /\ pc' \in InCall) =>
            /\ jito_tip' = jito_tip
            /\ send_client' = send_client
            /\ final_ixs' = final_ixs]_<< pc, submitVars >>

C27_Witness ==
    /\ pc = "poll"
    /\ sends = 2
    /\ sent_via = {"jito"}
    /\ jito_tip > 0
    /\ tip = 0
    /\ Transfers # {}

====
